---- MODULE Spec2Model ----
(***************************************************************************)
(* Model of the numeric and tabular core of stock_server.py:               *)
(*   __filter_abnormal_3delta, __calculate_percentile, get_stock_pe/pb,    *)
(*   get_single_stock_info, get_stock_indicator and                        *)
(*   apply_filters_for_data_frame.                                         *)
(* Floating-point numbers are modelled as exact rationals; NaN and the two *)
(* infinities are separate values.  Dates are day numbers.                 *)
(***************************************************************************)
EXTENDS Integers, Sequences, FiniteSets, TLC

VARIABLES
    pc,             \* position of the running call
    entry,          \* the function that was called
    df_in,          \* the table as it was before the last step
    df,             \* the working table of the percentile path: rows [date, v]
    window,         \* __calculate_percentile's window argument
    pct_raw,        \* the percentile column after rolling().apply()
    pct,            \* the percentile column after interpolate().ffill().bfill()
    table,          \* apply_filters_for_data_frame: the DataFrame df
    filters,        \* apply_filters_for_data_frame: the condition list
    operator_type,  \* apply_filters_for_data_frame: the combination mode
    result,         \* what the call returned or raised
    price_df,       \* the primary (price) table of a merge
    sec1,           \* first secondary table of a merge (pe / pe_percentile)
    sec2,           \* second secondary table of a merge (roe / pb_percentile)
    merged_df,      \* the merged table
    retry,          \* get_single_stock_info's retry argument
    attempts,       \* the outcomes of the retrieval attempts made so far
    slept           \* seconds spent in time.sleep so far

vars == <<pc, entry, df_in, df, window, pct_raw, pct, table, filters,
          operator_type, result, price_df, sec1, sec2, merged_df,
          retry, attempts, slept>>

retryVars == <<retry, attempts, slept>>

(***************************************************************************)
(* Cell values: float64 as NaN, +inf, -inf or an exact rational n/d.       *)
(***************************************************************************)
RECURSIVE Gcd(_, _)
Gcd(a, b) == IF b = 0 THEN a ELSE Gcd(b, a % b)

Abs(x) == IF x < 0 THEN -x ELSE x

NaN == [k |-> "nan", n |-> 0, d |-> 1]

PosInf == [k |-> "inf", n |-> 1, d |-> 1]

NegInf == [k |-> "inf", n |-> -1, d |-> 1]

\* the rational n/d (d # 0) in lowest terms with a positive denominator
Rat(n, d) ==
    LET g == Gcd(Abs(n), Abs(d))
        s == IF d < 0 THEN -1 ELSE 1
    IN  [k |-> "num", n |-> (s * n) \div g, d |-> (s * d) \div g]

Num(i) == [k |-> "num", n |-> i, d |-> 1]

IsNaN(x) == x.k = "nan"

IsInf(x) == x.k = "inf"

IsNum(x) == x.k = "num"

Lcm(a, b) == (a \div Gcd(a, b)) * b

RAdd(x, y) ==
    LET l == Lcm(x.d, y.d) IN Rat(x.n * (l \div x.d) + y.n * (l \div y.d), l)

RSub(x, y) ==
    LET l == Lcm(x.d, y.d) IN Rat(x.n * (l \div x.d) - y.n * (l \div y.d), l)

RMul(x, y) ==
    LET a == Rat(x.n, y.d)
        b == Rat(y.n, x.d)
    IN  Rat(a.n * b.n, a.d * b.d)

\* y # 0
RDiv(x, y) == RMul(x, Rat(y.d, y.n))

\* x < y on rationals
RLt(x, y) ==
    LET l == Lcm(x.d, y.d) IN x.n * (l \div x.d) < y.n * (l \div y.d)

\* float comparison x > y: False whenever an operand is NaN
FGt(x, y) ==
    IF IsNaN(x) \/ IsNaN(y) THEN FALSE
    ELSE IF IsInf(x) THEN (x.n > 0 /\ y # x)
    ELSE IF IsInf(y) THEN y.n < 0
    ELSE RLt(y, x)

FLt(x, y) == FGt(y, x)

\* a table of the percentile path: rows [date, v], v the value column
Vals(rows) == [i \in 1..Len(rows) |-> rows[i].v]

Dates(rows) == [i \in 1..Len(rows) |-> rows[i].date]

\* the sum of s[lo..hi], by halves
RECURSIVE SumRange(_, _, _)
SumRange(s, lo, hi) ==
    IF lo > hi THEN Num(0)
    ELSE IF lo = hi THEN s[lo]
    ELSE LET mid == (lo + hi) \div 2
         IN  RAdd(SumRange(s, lo, mid), SumRange(s, mid + 1, hi))

SeqSum(s) == SumRange(s, 1, Len(s))

IsValid(x) == ~IsNaN(x)

Valid(s) == SelectSeq(s, IsValid)

(***************************************************************************)
(* __filter_abnormal_3delta                                                *)
(***************************************************************************)
SigmaK == 3

HasInf(s) == \E i \in 1..Len(s) : IsInf(s[i])

\* Series.mean(): NaN skipped; an infinity makes it infinite or NaN
ColMean(s) ==
    LET v == Valid(s) IN
    IF Len(v) = 0 THEN NaN
    ELSE IF HasInf(v)
         THEN IF \E i, j \in 1..Len(v) : IsInf(v[i]) /\ IsInf(v[j]) /\ v[i] # v[j]
              THEN NaN
              ELSE CHOOSE x \in {v[i] : i \in 1..Len(v)} : IsInf(x)
    ELSE RDiv(SeqSum(v), Num(Len(v)))

\* the square of Series.std() (ddof = 1): NaN for fewer than two valid values
\* or when an infinity is among them
ColVar(s) ==
    LET v == Valid(s)
        m == ColMean(s)
        sq == [i \in 1..Len(v) |-> RMul(RSub(v[i], m), RSub(v[i], m))]
    IN  IF Len(v) < 2 \/ HasInf(v) THEN NaN
        ELSE RDiv(SeqSum(sq), Num(Len(v) - 1))

\* (x > mean - 3*std) & (x < mean + 3*std), std = sqrt(var); a comparison with
\* a NaN bound or a NaN value is False
InBandMutant(x, m, var) ==
    IF IsNaN(var) \/ ~IsNum(m) \/ ~IsNum(x) THEN FALSE
    ELSE LET dev == RSub(x, m)
             d2 == RMul(dev, dev)
             lim == RMul(Num(SigmaK * SigmaK), var)
         IN  ~RLt(lim, d2)

InBand(x, m, var) ==
    IF IsNaN(var) \/ ~IsNum(m) \/ ~IsNum(x) THEN FALSE
    ELSE LET dev == RSub(x, m)
             d2 == RMul(dev, dev)
             lim == RMul(Num(SigmaK * SigmaK), var)
         IN  /\ (RLt(Num(0), dev) \/ RLt(d2, lim))    \* x > lower
             /\ (RLt(dev, Num(0)) \/ RLt(d2, lim))    \* x < upper

filter_abnormal_3delta(rows) ==
    LET m == ColMean(Vals(rows))
        var == ColVar(Vals(rows))
        keep(r) == InBand(r.v, m, var)
    IN  SelectSeq(rows, keep)

(***************************************************************************)
(* __calculate_percentile                                                  *)
(***************************************************************************)
min_periods == 60

MinValid == 60

DefaultWindow == 1260

\* replace([np.inf, -np.inf], np.nan)
ReplaceInf(s) == [i \in 1..Len(s) |-> IF IsInf(s[i]) THEN NaN ELSE s[i]]

PrevValid(s, i) == {p \in 1..(i - 1) : IsValid(s[p])}

NextValid(s, i) == {q \in (i + 1)..Len(s) : IsValid(s[q])}

Max(S) == CHOOSE x \in S : \A y \in S : y <= x

\* the k-th smallest element of a set of integers
Kth(K, k) == CHOOSE x \in K : Cardinality({y \in K : y <= x}) = k

Min(S) == CHOOSE x \in S : \A y \in S : x <= y

\* Series.interpolate() along the coordinates xs (forward direction): a NaN
\* between two valid values is interpolated, a NaN after the last valid value
\* takes that value, a NaN before the first valid value stays
InterpolateBy(s, xs) ==
    [i \in 1..Len(s) |->
        IF IsValid(s[i]) \/ PrevValid(s, i) = {} THEN s[i]
        ELSE LET p == Max(PrevValid(s, i)) IN
             IF NextValid(s, i) = {} THEN s[p]
             ELSE LET q == Min(NextValid(s, i)) IN
                  RAdd(s[p], RMul(RSub(s[q], s[p]),
                                  Rat(xs[i] - xs[p], xs[q] - xs[p])))]

\* interpolate(method="time"): the coordinates are the index dates
InterpolateTime(s, dates) == InterpolateBy(s, dates)

\* interpolate(method="linear"): the coordinates are the row positions
InterpolateLinear(s) == InterpolateBy(s, [i \in 1..Len(s) |-> i])

ffill(s) ==
    [i \in 1..Len(s) |->
        IF IsValid(s[i]) \/ PrevValid(s, i) = {} THEN s[i]
        ELSE s[Max(PrevValid(s, i))]]

bfill(s) ==
    [i \in 1..Len(s) |->
        IF IsValid(s[i]) \/ NextValid(s, i) = {} THEN s[i]
        ELSE s[Min(NextValid(s, i))]]

WithVals(rows, s) == [i \in 1..Len(rows) |-> [date |-> rows[i].date, v |-> s[i]]]

\* lines 914-915
GapFillMutant(rows) ==
    WithVals(rows, ffill(InterpolateTime(ReplaceInf(Vals(rows)), Dates(rows))))

GapFill(rows) ==
    WithVals(rows,
        bfill(ffill(InterpolateTime(ReplaceInf(Vals(rows)), Dates(rows)))))

CountGt(cur, hist) == Cardinality({j \in 1..Len(hist) : FGt(cur, hist[j])})

safe_percentileMutant(x) ==
    LET valid_data == Valid(x) IN
    IF Len(valid_data) < MinValid THEN NaN
    ELSE LET current == valid_data[Len(valid_data)]
             history == SubSeq(valid_data, 1, Len(valid_data) - 1)
             le == Cardinality({j \in 1..Len(history) : ~FGt(history[j], current)})
         IN  IF Len(history) = 0 THEN NaN
             ELSE Rat(100 * le, Len(history))

safe_percentile(x) ==
    LET valid_data == Valid(x) IN
    IF Len(valid_data) < MinValid THEN NaN
    ELSE LET current == valid_data[Len(valid_data)]
             history == SubSeq(valid_data, 1, Len(valid_data) - 1)
         IN  IF Len(history) = 0 THEN NaN        \* mean of an empty array
             ELSE Rat(100 * CountGt(current, history), Len(history))

WindowAt(s, i, w) == SubSeq(s, IF i - w + 1 < 1 THEN 1 ELSE i - w + 1, i)

\* rolling(window, min_periods=60).apply(safe_percentile, raw=True)
RollingApplyMutant(s, w) ==
    [i \in 1..Len(s) |->
        IF Len(Valid(WindowAt(s, i, w))) < min_periods THEN Num(0)
        ELSE safe_percentile(WindowAt(s, i, w))]

RollingApply(s, w) ==
    [i \in 1..Len(s) |->
        IF Len(Valid(WindowAt(s, i, w))) < min_periods THEN NaN
        ELSE safe_percentile(WindowAt(s, i, w))]

\* lines 934-936
Smooth(s) == bfill(ffill(InterpolateLinear(s)))

(***************************************************************************)
(* Inputs of the percentile path.  A raw series is a generated prefix      *)
(* followed by a free tail, on a trading-day calendar (five days, then a   *)
(* two-day gap), so dates are unique and ascending as the data source      *)
(* delivers them.                                                          *)
(***************************************************************************)
LongPad == 59

MaxTail == 2

PadLens == {0, 3, LongPad}

Patterns == 1..4

TailVals == {NaN, PosInf, Num(1), Num(40)}

TradingDay(i) == i + 2 * ((i - 1) \div 5)

PatternVal(p, i) ==
    CASE p = 1 -> Num((i * 3) % 7)
      [] p = 2 -> Num(i \div 10)
      [] p = 3 -> IF i <= 2 \/ i % 4 = 0 THEN NaN ELSE Num(i % 3)
      [] OTHER -> IF i = 2 THEN NegInf ELSE IF i % 6 = 0 THEN NaN ELSE Num((i * 5) % 4)

SeqsUpTo(S, n) == UNION {[1..m -> S] : m \in 0..n}

MkSeries(p, len, tail) ==
    [i \in 1..(len + Len(tail)) |->
        [date |-> TradingDay(i),
         v |-> IF i <= len THEN PatternVal(p, i) ELSE tail[i - len]]]

InputSeries ==
    {MkSeries(p, len, tail) : p \in Patterns, len \in PadLens,
                              tail \in SeqsUpTo(TailVals, MaxTail)}

Windows == {min_periods, min_periods + 1, DefaultWindow}

PeEntries == {"get_stock_pe", "get_stock_pb"}

PercentileEntries == PeEntries \cup {"filter_abnormal_3delta", "calculate_percentile"}

FilterIdle ==
    /\ table = <<>>
    /\ filters = <<>>
    /\ operator_type = "and"
    /\ result = [kind |-> "none"]

MergeIdle ==
    /\ price_df = <<>>
    /\ sec1 = <<>>
    /\ sec2 = <<>>
    /\ merged_df = <<>>

\* the default of the retry argument
DefaultRetry == 3

RetryIdle ==
    /\ retry = DefaultRetry
    /\ attempts = <<>>
    /\ slept = 0

PercentileIdle ==
    /\ df_in = <<>>
    /\ df = <<>>
    /\ window = DefaultWindow
    /\ pct_raw = <<>>
    /\ pct = <<>>

InitPercentile ==
    /\ pc = "start"
    /\ entry \in PercentileEntries
    /\ df \in InputSeries
    /\ df_in = <<>>
    /\ window \in (IF entry = "calculate_percentile" THEN Windows ELSE {DefaultWindow})
    /\ pct_raw = <<>>
    /\ pct = <<>>
    /\ FilterIdle
    /\ MergeIdle
    /\ RetryIdle

\* get_stock_pe / get_stock_pb: fillna(method="ffill") of the value column
PeFfill ==
    /\ pc = "start"
    /\ entry \in PeEntries
    /\ df_in' = df
    /\ df' = WithVals(df, ffill(Vals(df)))
    /\ pc' = "ffilled"
    /\ UNCHANGED <<retryVars, entry, window, pct_raw, pct, table, filters, operator_type,
                   result, price_df, sec1, sec2, merged_df>>

\* __filter_abnormal_3delta, called directly or from get_stock_pe / get_stock_pb
FilterAbnormal ==
    /\ \/ pc = "ffilled"
       \/ pc = "start" /\ entry = "filter_abnormal_3delta"
    /\ df_in' = df
    /\ df' = filter_abnormal_3delta(df)
    /\ pc' = "filtered"
    /\ UNCHANGED <<retryVars, entry, window, pct_raw, pct, table, filters, operator_type,
                   result, price_df, sec1, sec2, merged_df>>

\* __calculate_percentile, lines 909-915
CleanColumn ==
    /\ \/ pc = "filtered" /\ entry \in PeEntries
       \/ pc = "start" /\ entry = "calculate_percentile"
    /\ df_in' = df
    /\ df' = GapFill(df)
    /\ pc' = "cleaned"
    /\ UNCHANGED <<retryVars, entry, window, pct_raw, pct, table, filters, operator_type,
                   result, price_df, sec1, sec2, merged_df>>

\* __calculate_percentile, lines 927-932
RollPercentile ==
    /\ pc = "cleaned"
    /\ pct_raw' = RollingApply(Vals(df), window)
    /\ pc' = "rolled"
    /\ UNCHANGED <<retryVars, entry, df_in, df, window, pct, table, filters, operator_type,
                   result, price_df, sec1, sec2, merged_df>>

\* __calculate_percentile, lines 934-939
SmoothPercentile ==
    /\ pc = "rolled"
    /\ pct' = Smooth(pct_raw)
    /\ pc' = "done"
    /\ UNCHANGED <<retryVars, entry, df_in, df, window, pct_raw, table, filters,
                   operator_type, result, price_df, sec1, sec2, merged_df>>

NextPercentile ==
    \/ PeFfill
    \/ FilterAbnormal
    \/ CleanColumn
    \/ RollPercentile
    \/ SmoothPercentile

SpecPercentile == InitPercentile /\ [][NextPercentile]_vars

(***************************************************************************)
(* apply_filters_for_data_frame                                            *)
(*                                                                         *)
(* A cell or comparison value is a str (a sequence of characters), an int  *)
(* or a pandas Timestamp (a day number).  A str of one digit stands for a  *)
(* date string of that day; any other str is not parseable as a date.      *)
(* A condition carries a scalar value or a list of values.  Comparison and *)
(* contains conditions are given scalars, regex metacharacters do not      *)
(* occur, and every row of a table has the same columns.                   *)
(***************************************************************************)
Txt(s) == [t |-> "str", s |-> s, n |-> 0]

IntV(n) == [t |-> "int", s |-> <<>>, n |-> n]

Ts(day) == [t |-> "ts", s |-> <<>>, n |-> day]

Absent == "absent"

SupportedOpsMutant ==
    {"eq", "ne", "gt", "lt", "ge", "le", "in", "not_in", "contains", "not_contains",
     "foo"}

\* the keys of operator_map
SupportedOps ==
    {"eq", "ne", "gt", "lt", "ge", "le", "in", "not_in", "contains", "not_contains"}

Digits == {"1", "2", "3"}

DayOf(c) == CASE c = "1" -> 1 [] c = "2" -> 2 [] OTHER -> 3

IsDateText(x) == x.t = "str" /\ Len(x.s) = 1 /\ x.s[1] \in Digits

\* pd.to_datetime of one value: [ok, v]
to_datetime(x) ==
    IF x.t = "ts" THEN [ok |-> TRUE, v |-> x]
    ELSE IF IsDateText(x) THEN [ok |-> TRUE, v |-> Ts(DayOf(x.s[1]))]
    ELSE [ok |-> FALSE, v |-> x]

\* pd.DataFrame(list of records): column-oriented, columns of the records
DataFrame(rows) ==
    LET cols == IF rows = <<>> THEN {} ELSE DOMAIN rows[1]
    IN  [n |-> Len(rows),
         col |-> [c \in cols |-> [i \in 1..Len(rows) |-> rows[i][c]]]]

Columns(d) == DOMAIN d.col

\* DataFrame.to_dict(orient='records') of the rows at the positions of keep
to_dictMutant(d, keep) ==
    LET idx == SelectSeq([i \in 1..d.n |-> i], LAMBDA i : i \in keep)
    IN  [k \in 1..Len(idx) |->
            [c \in Columns(d) |-> d.col[c][idx[Len(idx) + 1 - k]]]]

to_dict(d, keep) ==
    LET idx == SelectSeq([i \in 1..d.n |-> i], LAMBDA i : i \in keep)
    IN  [k \in 1..Len(idx) |-> [c \in Columns(d) |-> d.col[c][idx[k]]]]

\* the dtype of a column: datetime64, int64, or object holding str
Dtype(d, c) == d.col[c][1].t

CharCode(c) ==
    CASE c = "1" -> 1 [] c = "2" -> 2 [] c = "3" -> 3 [] c = "x" -> 4 [] OTHER -> 5

RECURSIVE TextLt(_, _)
TextLt(a, b) ==
    IF b = <<>> THEN FALSE
    ELSE IF a = <<>> THEN TRUE
    ELSE IF a[1] # b[1] THEN CharCode(a[1]) < CharCode(b[1])
    ELSE TextLt(Tail(a), Tail(b))

\* str.contains(y) without regex metacharacters: y occurs in x
Contains(x, y) ==
    \E i \in 1..(Len(x) - Len(y) + 1) : SubSeq(x, i, i + Len(y) - 1) = y

\* pandas (before 3.0, which the fillna(method=...) calls of this file need)
\* casts a date string compared with, or looked up in, a datetime64 column
Cast(dtype, v) ==
    IF dtype = "ts" /\ to_datetime(v).ok THEN to_datetime(v).v ELSE v

CellEq(x, v) == LET w == Cast(x.t, v) IN x.t = w.t /\ x = w

CellLt(x, v) ==
    LET w == Cast(x.t, v) IN
    IF x.t = "str" THEN TextLt(x.s, w.s) ELSE x.n < w.n

\* the exception op_func(df[col], value) raises, "" when it raises none
MaskError(op, dtype, f) ==
    IF op \in {"gt", "lt", "ge", "le"}
    THEN IF Cast(dtype, f.value).t # dtype THEN "TypeError" ELSE ""
    ELSE IF op \in {"in", "not_in"}
    THEN IF f.is_list THEN "" ELSE "TypeError"
    ELSE IF op \in {"contains", "not_contains"}
    THEN IF dtype # "str" THEN "AttributeError"
         ELSE IF f.value.t # "str" THEN "TypeError" ELSE ""
    ELSE ""

\* one element of the mask op_func(df[col], value)
MaskAt(op, x, f) ==
    CASE op = "eq" -> CellEq(x, f.value)
      [] op = "ne" -> ~CellEq(x, f.value)
      [] op = "gt" -> ~CellLt(x, f.value) /\ ~CellEq(x, f.value)
      [] op = "lt" -> CellLt(x, f.value)
      [] op = "ge" -> ~CellLt(x, f.value)
      [] op = "le" -> CellLt(x, f.value) \/ CellEq(x, f.value)
      [] op = "in" -> \E j \in 1..Len(f.values) : CellEq(x, f.values[j])
      [] op = "not_in" -> ~\E j \in 1..Len(f.values) : CellEq(x, f.values[j])
      [] op = "contains" -> Contains(x.s, f.value.s)
      [] OTHER -> ~Contains(x.s, f.value.s)

\* type(value).__name__ of a comparison value
TypeName(x) == IF x.t = "ts" THEN "Timestamp" ELSE x.t

\* lines 877-883: the explicit data_type, else the type name of the value, of
\* the first element of a list, or "str" for an empty list
InferDataType(f) ==
    IF f.data_type # Absent THEN f.data_type
    ELSE IF f.is_list
         THEN IF f.values = <<>> THEN "str" ELSE TypeName(f.values[1])
         ELSE TypeName(f.value)

\* the guard of line 885, on a column the frame has
Coerces(d, f) ==
    InferDataType(f) = "date" /\ f.column \in Columns(d) /\ Dtype(d, f.column) # "ts"

\* line 886: the frame after the condition's coercion of its column
CoercedFrame(d, f) ==
    IF Coerces(d, f)
    THEN [d EXCEPT !.col[f.column] =
            [i \in 1..d.n |-> to_datetime(d.col[f.column][i]).v]]
    ELSE d

\* lines 887-888: the condition with the value that is handed to op_func
Operand(d, f) ==
    IF Coerces(d, f) /\ ~f.is_list
    THEN [f EXCEPT !.value = to_datetime(f.value).v]
    ELSE f

\* lines 874-895 for one condition f on the DataFrame d:
\* [err, df, mask], err = "" when the condition was evaluated
EvalCondition(d, f) ==
    LET col == f.column
        op == IF f.operator = Absent THEN "eq" ELSE f.operator
        coerce == Coerces(d, f)
        d1 == CoercedFrame(d, f)
        f1 == Operand(d, f)
        fail(e) == [err |-> e, df |-> d, mask |-> {}]
    IN  IF InferDataType(f) = "date" /\ col \notin Columns(d) THEN fail("KeyError")
        ELSE IF coerce /\ \E i \in 1..d.n : ~to_datetime(d.col[col][i]).ok
        THEN fail("ParserError")
        ELSE IF coerce /\ ~f.is_list /\ ~to_datetime(f.value).ok
        THEN fail("ParserError")
        ELSE IF op \notin SupportedOps THEN fail("UnsupportedOperator")
        ELSE IF col \notin Columns(d) THEN fail("KeyError")
        ELSE IF MaskError(op, Dtype(d1, col), f1) # ""
        THEN fail(MaskError(op, Dtype(d1, col), f1))
        ELSE [err |-> "", df |-> d1,
              mask |-> {i \in 1..d1.n : MaskAt(op, d1.col[col][i], f1)}]

\* the loop of lines 873-895 from condition k on: [err, df, masks]
RECURSIVE EvalFilters(_, _, _, _)
EvalFilters(d, fs, k, masks) ==
    IF k > Len(fs) THEN [err |-> "", df |-> d, masks |-> masks]
    ELSE LET r == EvalCondition(d, fs[k]) IN
         IF r.err # "" THEN [err |-> r.err, df |-> d, masks |-> masks]
         ELSE EvalFilters(r.df, fs, k + 1, Append(masks, r.mask))

\* lines 897-900: pd.concat(mask_list, axis=1).all(axis=1) / .any(axis=1)
FinalMask(n, masks, mode) ==
    IF mode = "and"
    THEN {i \in 1..n : \A m \in 1..Len(masks) : i \in masks[m]}
    ELSE {i \in 1..n : \E m \in 1..Len(masks) : i \in masks[m]}

\* the whole call: [kind |-> "rows", rows] or [kind |-> "error", error]
Raised(e) == [kind |-> "error", error |-> e, rows |-> <<>>]

Returned(rows) == [kind |-> "rows", error |-> "", rows |-> rows]

apply_filters_for_data_frame(tbl, fs, mode) ==
    LET d == DataFrame(tbl) IN
    IF fs = <<>> THEN Returned(to_dict(d, 1..d.n))
    ELSE LET r == EvalFilters(d, fs, 1, <<>>) IN
         IF r.err # "" THEN Raised(r.err)
         ELSE IF mode \notin {"and", "or"} THEN Raised("BadOperatorType")
         ELSE Returned(to_dict(r.df, FinalMask(r.df.n, r.masks, mode)))

(***************************************************************************)
(* Inputs and calls of apply_filters_for_data_frame                        *)
(***************************************************************************)
MaxRows == 3

MaxFilters == 2

Row(a, b, day) == [A |-> Txt(a), B |-> IntV(b), D |-> Txt(day)]

RowPool ==
    {Row(<<"x">>, 10, <<"1">>), Row(<<"x">>, 3, <<"2">>),
     Row(<<"y">>, 10, <<"3">>), Row(<<"x", "y">>, 5, <<"2">>)}

Tables ==
    {t \in SeqsUpTo(RowPool, MaxRows) : \A i, j \in 1..Len(t) : i # j => t[i] # t[j]}

Cond(col, op, v, dt) ==
    [column |-> col, operator |-> op, is_list |-> FALSE, value |-> v,
     values |-> <<>>, data_type |-> dt]

CondList(col, op, vs, dt) ==
    [column |-> col, operator |-> op, is_list |-> TRUE, value |-> Txt(<<>>),
     values |-> vs, data_type |-> dt]

Conditions ==
    {Cond("A", "eq", Txt(<<"x">>), Absent),
     Cond("B", "gt", IntV(5), Absent),
     Cond("B", "foo", IntV(5), Absent),
     Cond("Z", "eq", IntV(1), Absent),
     Cond("D", "gt", Txt(<<"1">>), "date"),
     CondList("D", "in", <<Txt(<<"2">>), Txt(<<"3">>)>>, "date"),
     Cond("A", "contains", Txt(<<"y">>), Absent),
     Cond("Z", "foo", Txt(<<"1">>), "date"),
     Cond("B", Absent, IntV(10), Absent),
     Cond("D", "le", Txt(<<"2">>), "date"),
     Cond("D", "eq", Txt(<<"x">>), "date")}

OperatorTypes == {"and", "or", "xor"}

InitFilter ==
    /\ pc = "called"
    /\ entry = "apply_filters_for_data_frame"
    /\ table \in Tables
    /\ filters \in SeqsUpTo(Conditions, MaxFilters)
    /\ operator_type \in OperatorTypes
    /\ result = [kind |-> "none"]
    /\ PercentileIdle
    /\ MergeIdle
    /\ RetryIdle

FilterCall(kind, next) ==
    /\ pc = "called"
    /\ apply_filters_for_data_frame(table, filters, operator_type).kind = kind
    /\ result' = apply_filters_for_data_frame(table, filters, operator_type)
    /\ pc' = next
    /\ UNCHANGED <<retryVars, entry, df_in, df, window, pct_raw, pct, table, filters,
                   operator_type, price_df, sec1, sec2, merged_df>>

\* lines 856-857
FiltersEmpty == filters = <<>> /\ FilterCall("rows", "returned")

\* a raise of lines 874-902
FiltersRaise == filters # <<>> /\ FilterCall("error", "raised")

\* lines 903-904
FiltersReturn == filters # <<>> /\ FilterCall("rows", "returned")

NextFilter ==
    \/ FiltersEmpty
    \/ FiltersRaise
    \/ FiltersReturn

SpecFilter == InitFilter /\ [][NextFilter]_vars

(***************************************************************************)
(* get_single_stock_info and get_stock_indicator: the merges               *)
(*                                                                         *)
(* A merged cell carries, beside its value, the dates of the secondary     *)
(* observations the value was computed from (src).                         *)
(***************************************************************************)
Tag(x, S) == [k |-> x.k, n |-> x.n, d |-> x.d, src |-> S]

Plain(x) == [k |-> x.k, n |-> x.n, d |-> x.d]

\* DataFrame.sort_values('date') of rows with distinct dates
sort_values(rows) ==
    LET ds == {rows[i].date : i \in 1..Len(rows)}
    IN  [k \in 1..Len(rows) |->
            CHOOSE r \in {rows[i] : i \in 1..Len(rows)} : r.date = Kth(ds, k)]

\* pd.merge_asof(left, right, on='date', direction='backward'): for each left
\* row the last right row with date <= the left date; right is sorted by date
merge_asof(left, right) ==
    [i \in 1..Len(left) |->
        LET J == {j \in 1..Len(right) : right[j].date <= left[i].date}
        IN  IF J = {} THEN Tag(NaN, {})
            ELSE Tag(right[Max(J)].v, {right[Max(J)].date})]

\* pd.merge(left, right, on='date', how='left'); right dates are distinct
merge_left(left, right) ==
    [i \in 1..Len(left) |->
        LET J == {j \in 1..Len(right) : right[j].date = left[i].date}
        IN  IF J = {} THEN Tag(NaN, {})
            ELSE Tag(right[Max(J)].v, {right[Max(J)].date})]

\* replace([np.inf, -np.inf], np.nan) on merged cells
ReplaceInfCells(s) ==
    [i \in 1..Len(s) |-> IF IsInf(s[i]) THEN Tag(NaN, {}) ELSE s[i]]

\* the k-th smallest of the values of a non-empty sequence
OrderStat(v, k) ==
    Plain(CHOOSE x \in {v[i] : i \in 1..Len(v)} :
            /\ Cardinality({i \in 1..Len(v) : RLt(v[i], x)}) < k
            /\ k <= Cardinality({i \in 1..Len(v) : ~RLt(x, v[i])}))

\* Series.median(): NaN skipped, the mean of the two middle values for an
\* even count, NaN for an empty column
median(s) ==
    LET v == Valid(s)
        n == Len(v)
    IN  IF n = 0 THEN NaN
        ELSE IF n % 2 = 1 THEN OrderStat(v, (n + 1) \div 2)
        ELSE RDiv(RAdd(OrderStat(v, n \div 2), OrderStat(v, n \div 2 + 1)), Num(2))

\* fillna(median of the column): the fill value is computed from every valid
\* cell of the column
fillna_median(s) ==
    LET m == median(s)
        from == UNION {s[i].src : i \in {j \in 1..Len(s) : IsValid(s[j])}}
    IN  [i \in 1..Len(s) |-> IF IsNaN(s[i]) /\ ~IsNaN(m) THEN Tag(m, from) ELSE s[i]]

\* get_single_stock_info, lines 97-116, for one successful retrieval
single_stock_merge(price, pe_df, finance_df) ==
    LET left == sort_values(price)
        pe1 == merge_asof(left, pe_df)
        roe1 == merge_asof(left, sort_values(finance_df))
        pe2 == fillna_median(ReplaceInfCells(pe1))
        roe2 == ffill(roe1)
    IN  [i \in 1..Len(left) |-> [date |-> left[i].date, pe |-> pe2[i], roe |-> roe2[i]]]

\* get_stock_indicator, lines 153-164, given the tables of lines 139-151
stock_indicator_merge(price, df_pe, df_pb) ==
    LET pe1 == bfill(ffill(merge_left(price, df_pe)))
        pb1 == bfill(ffill(merge_left(price, df_pb)))
    IN  [i \in 1..Len(price) |->
            [date |-> price[i].date, pe_percentile |-> pe1[i], pb_percentile |-> pb1[i]]]

(***************************************************************************)
(* Inputs and calls of the merges.  The secondary tables come sorted by    *)
(* date with distinct dates; a percentile table as get_stock_pe returns it *)
(* is dense or missing in every row.                                       *)
(***************************************************************************)
MaxDate == 4

MaxSec == 2

Ascending(rows) == \A i \in 1..(Len(rows) - 1) : rows[i].date < rows[i + 1].date

Reverse(s) == [i \in 1..Len(s) |-> s[Len(s) + 1 - i]]

DateRows == [date : 1..MaxDate]

\* every ascending calendar over 1..MaxDate
Calendars == {c \in SeqsUpTo(DateRows, MaxDate) : Ascending(c)}

SecTables(vals) ==
    {t \in SeqsUpTo([date : 1..MaxDate, v : vals], MaxSec) : Ascending(t)}

PeVals == {PosInf, Num(10), Num(30)}

RoeVals == {NaN, Num(1)}

PercentileVals == {Num(50), Num(100)}

PercentileTables ==
    SecTables(PercentileVals) \cup {t \in SecTables({NaN}) : t # <<>>}

InitMerge ==
    /\ pc = "called"
    /\ \/ /\ entry = "get_single_stock_info"
          /\ price_df \in Calendars \cup {Reverse(c) : c \in Calendars}
          /\ sec1 \in SecTables(PeVals)
          /\ sec2 \in SecTables(RoeVals)
       \/ /\ entry = "get_stock_indicator"
          /\ price_df \in Calendars
          /\ sec1 \in PercentileTables
          /\ sec2 \in PercentileTables
    /\ merged_df = <<>>
    /\ PercentileIdle
    /\ FilterIdle
    /\ RetryIdle

SingleStockInfo ==
    /\ pc = "called"
    /\ entry = "get_single_stock_info"
    /\ merged_df' = single_stock_merge(price_df, sec1, sec2)
    /\ pc' = "returned"
    /\ UNCHANGED <<retryVars, entry, df_in, df, window, pct_raw, pct, table, filters,
                   operator_type, result, price_df, sec1, sec2>>

StockIndicator ==
    /\ pc = "called"
    /\ entry = "get_stock_indicator"
    /\ merged_df' = stock_indicator_merge(price_df, sec1, sec2)
    /\ pc' = "returned"
    /\ UNCHANGED <<retryVars, entry, df_in, df, window, pct_raw, pct, table, filters,
                   operator_type, result, price_df, sec1, sec2>>

NextMerge ==
    \/ SingleStockInfo
    \/ StockIndicator

SpecMerge == InitMerge /\ [][NextMerge]_vars

(***************************************************************************)
(* get_single_stock_info: the retry loop.  Every attempt retrieves the      *)
(* price, pe and finance tables anew; it fails when a retrieval or the      *)
(* merge raises an Exception, and the tables retrieved before the raise     *)
(* stay in the local variables.                                             *)
(***************************************************************************)
MaxRetry == 3

\* time.sleep(1)
RetryDelay == 1

RetryCounts == -1..MaxRetry

\* what the data source can deliver in one attempt
Retrievals ==
    {[price |-> <<[date |-> 1], [date |-> 3]>>,
      pe |-> <<[date |-> 1, v |-> Num(10)]>>,
      finance |-> <<[date |-> 2, v |-> Num(1)]>>],
     [price |-> <<[date |-> 3], [date |-> 2]>>,
      pe |-> <<[date |-> 1, v |-> Num(30)], [date |-> 3, v |-> PosInf]>>,
      finance |-> <<>>],
     [price |-> <<[date |-> 2]>>,
      pe |-> <<>>,
      finance |-> <<[date |-> 1, v |-> NaN]>>]}

\* the statement of the attempt that raises
FailPoints == {"price", "pe", "finance", "merge_roe"}

\* lines 97-102 alone: the table an attempt holds when the second merge raises
pe_merge(price, pe_df) ==
    LET left == sort_values(price)
        pe1 == merge_asof(left, pe_df)
    IN  [i \in 1..Len(left) |-> [date |-> left[i].date, pe |-> pe1[i]]]

ReturnedTable(t) == [kind |-> "table", table |-> t]

ReturnedNone == [kind |-> "None"]

InitRetry ==
    /\ pc = "loop"
    /\ entry = "get_single_stock_info"
    /\ retry \in RetryCounts
    /\ attempts = <<>>
    /\ slept = 0
    /\ result = [kind |-> "none"]
    /\ table = <<>>
    /\ filters = <<>>
    /\ operator_type = "and"
    /\ PercentileIdle
    /\ MergeIdle

\* range(retry) has another iteration
LoopContinuesMutant == Len(attempts) <= retry

LoopContinues == Len(attempts) < retry

\* lines 36-116 without a raise: the attempt returns its merged table
AttemptSucceeds ==
    /\ pc = "loop"
    /\ LoopContinues
    /\ \E got \in Retrievals :
        /\ price_df' = got.price
        /\ sec1' = got.pe
        /\ sec2' = got.finance
        /\ merged_df' = single_stock_merge(got.price, got.pe, got.finance)
        /\ result' = ReturnedTable(single_stock_merge(got.price, got.pe, got.finance))
    /\ attempts' = Append(attempts, "ok")
    /\ pc' = "returned"
    /\ UNCHANGED <<entry, df_in, df, window, pct_raw, pct, table, filters,
                   operator_type, retry, slept>>

\* lines 36-119 with a raise at one of the statements: the handler prints,
\* sleeps and the loop goes on
AttemptFails ==
    /\ pc = "loop"
    /\ LoopContinues
    /\ \E got \in Retrievals, at \in FailPoints :
        /\ price_df' = IF at = "price" THEN price_df ELSE got.price
        /\ sec1' = IF at \in {"price", "pe"} THEN sec1 ELSE got.pe
        /\ sec2' = IF at \in {"price", "pe", "finance"} THEN sec2 ELSE got.finance
        /\ merged_df' = IF at = "merge_roe" THEN pe_merge(got.price, got.pe)
                        ELSE merged_df
    /\ attempts' = Append(attempts, "fail")
    /\ slept' = slept + RetryDelay
    /\ UNCHANGED <<pc, entry, df_in, df, window, pct_raw, pct, table, filters,
                   operator_type, result, retry>>

\* the loop of line 35 is exhausted: the function ends without a return
\* statement and yields None
RetriesExhausted ==
    /\ pc = "loop"
    /\ ~LoopContinues
    /\ result' = ReturnedNone
    /\ pc' = "returned"
    /\ UNCHANGED <<entry, df_in, df, window, pct_raw, pct, table, filters,
                   operator_type, price_df, sec1, sec2, merged_df, retry,
                   attempts, slept>>

NextRetry ==
    \/ AttemptSucceeds
    \/ AttemptFails
    \/ RetriesExhausted

SpecRetry == InitRetry /\ [][NextRetry]_vars

\* the call runs on: no step of the loop is postponed forever
SpecRetryLive == SpecRetry /\ WF_vars(NextRetry)

(***************************************************************************)
(* All calls together                                                      *)
(***************************************************************************)
Init == InitPercentile \/ InitFilter \/ InitMerge \/ InitRetry

Next == NextPercentile \/ NextFilter \/ NextMerge \/ NextRetry

Spec == Init /\ [][Next]_vars

(***************************************************************************)
(* Properties of the percentile path                                       *)
(***************************************************************************)
\* the positions of the trailing window at row i: the up-to-w most recent
\* valid observations ending at and including i
TrailingWindow(s, i, w) ==
    LET ok == {j \in 1..i : IsValid(s[j])}
    IN  IF Cardinality(ok) <= w THEN ok
        ELSE {j \in ok : Cardinality({k \in ok : k >= j}) <= w}

History(s, i, w) == TrailingWindow(s, i, w) \ {i}

Below(s, i, w) == {j \in History(s, i, w) : RLt(s[j], s[i])}

Rolled == pc \in {"rolled", "done"}

\* minSamples of the specification's RollingPercentileEngine
MinSamples == 60

\* C3: wherever the trailing window of row i holds at least the minimum
\* sample count, the raw percentile is 100 * |{h in history : h < current}| /
\* |history|, with strict comparison.
C3_PercentileFormula ==
    Rolled =>
        \A i \in 1..Len(df) :
            LET col == Vals(df) IN
            (i \in TrailingWindow(col, i, window)
             /\ Cardinality(TrailingWindow(col, i, window)) >= MinSamples)
            => /\ IsNum(pct_raw[i])
               /\ pct_raw[i].n * Cardinality(History(col, i, window))
                  = 100 * Cardinality(Below(col, i, window)) * pct_raw[i].d

\* a row with a full window, a tie in its history and a percentile strictly
\* between 0 and 100
C3_Witness ==
    /\ pc = "rolled"
    /\ \E i \in 1..Len(df) :
        LET col == Vals(df) IN
        /\ Cardinality(TrailingWindow(col, i, window)) >= MinSamples
        /\ \E j \in History(col, i, window) : col[j] = col[i]
        /\ IsNum(pct_raw[i]) /\ 0 < pct_raw[i].n /\ pct_raw[i].n < 100 * pct_raw[i].d

\* C4: a row whose trailing window holds fewer than the minimum sample count
\* has a missing raw percentile, never 0 or another number.
C4_WarmUpMissing ==
    Rolled =>
        /\ Len(pct_raw) = Len(df)
        /\ \A i \in 1..Len(df) :
            Cardinality(TrailingWindow(Vals(df), i, window)) < MinSamples
            => IsNaN(pct_raw[i])

\* a series with warm-up rows followed by a row that has a percentile
C4_Witness ==
    /\ pc = "rolled"
    /\ \E i, j \in 1..Len(df) :
        /\ Cardinality(TrailingWindow(Vals(df), i, window)) < MinSamples
        /\ IsNaN(pct_raw[i])
        /\ IsNum(pct_raw[j])

\* C5: after smoothing, the percentile column of every input series has no
\* missing value.
C5_DensePercentile ==
    pc = "done" => \A i \in 1..Len(pct) : ~IsNaN(pct[i])

\* the positions of the pre-filter rows strictly inside the 3-sigma band, with
\* mean and sample standard deviation over the non-missing values:
\* |v - S/n| < 3 * sqrt((Q - S^2/n) / (n - 1)), cleared of roots and fractions
InsideBand(rows) ==
    LET ok == {i \in 1..Len(rows) : IsValid(rows[i].v)}
        n == Cardinality(ok)
        int == [i \in 1..Len(rows) |-> rows[i].v.n]
        S == SeqSum([i \in 1..Len(rows) |-> IF i \in ok THEN Num(int[i]) ELSE Num(0)]).n
        Q == SeqSum([i \in 1..Len(rows) |->
                        IF i \in ok THEN Num(int[i] * int[i]) ELSE Num(0)]).n
    IN  IF n < 2 \/ \E i \in ok : ~IsNum(rows[i].v) THEN {}
        ELSE {i \in ok : (n * int[i] - S) * (n * int[i] - S) * (n - 1)
                            < 9 * n * (n * Q - S * S)}

\* C6: the filter returns exactly the rows strictly inside the band, whole and
\* in their original order.
C6_ThreeSigmaFilter ==
    pc = "filtered" =>
        LET K == InsideBand(df_in) IN
        /\ \A i \in 1..Len(df_in) : IsNum(df_in[i].v) => df_in[i].v.d = 1
        /\ Len(df) = Cardinality(K)
        /\ \A k \in 1..Len(df) : df[k] = df_in[Kth(K, k)]

\* a numeric outlier is removed while other rows are kept
C6_Witness ==
    /\ pc = "filtered"
    /\ Len(df) > 0
    /\ \E i \in 1..Len(df_in) :
        /\ IsNum(df_in[i].v)
        /\ \A k \in 1..Len(df) : df[k].date # df_in[i].date

\* C7: after gap filling the value column has no missing and no infinite
\* entry, unless every entry was missing or infinite, and then it is all missing.
C7_GapFillPostcondition ==
    pc = "cleaned" =>
        /\ Len(df) = Len(df_in)
        /\ IF \A i \in 1..Len(df_in) : ~IsNum(df_in[i].v)
           THEN \A i \in 1..Len(df) : IsNaN(df[i].v)
           ELSE \A i \in 1..Len(df) : IsNum(df[i].v)

\* a column with a leading gap, an infinity and a number is filled
C7_Witness ==
    /\ pc = "cleaned"
    /\ Len(df_in) > 0
    /\ IsNaN(df_in[1].v)
    /\ \E i, j \in 1..Len(df_in) : IsInf(df_in[i].v) /\ IsNum(df_in[j].v)
    /\ \A i \in 1..Len(df) : IsNum(df[i].v)

\* C12: in get_stock_pe and get_stock_pb no gap-filling step has touched the
\* value column when the 3-sigma filter reads it: the values the mean and the
\* standard deviation are computed from are the valid values of the raw series.
C12_FilterBeforeGapFill ==
    (entry \in PeEntries /\ pc = "ffilled") =>
        /\ Vals(df) = Vals(df_in)
        /\ Valid(Vals(df)) = Valid(Vals(df_in))

\* the parts of C12 the code keeps: the filter runs once, and interpolation and
\* backward fill (lines 914-915) run after it
C12_FilterOnceBeforeInterpolation ==
    [][/\ pc' = "filtered" => pc \in {"start", "ffilled"}
       /\ (entry \in PeEntries /\ pc' = "cleaned") => pc = "filtered"
       /\ pc = "filtered" => pc' # "filtered"]_vars

(***************************************************************************)
(* Properties of apply_filters_for_data_frame                              *)
(***************************************************************************)
FilterDone == pc \in {"returned", "raised"} /\ entry = "apply_filters_for_data_frame"

\* the positions of the input rows the combined predicate holds for
Surviving ==
    LET r == EvalFilters(DataFrame(table), filters, 1, <<>>) IN
    {i \in 1..Len(table) :
        IF operator_type = "and"
        THEN \A m \in 1..Len(r.masks) : i \in r.masks[m]
        ELSE \E m \in 1..Len(r.masks) : i \in r.masks[m]}

\* C8: with a non-empty condition list the call returns exactly the input rows
\* the combined predicate holds for ('and': every mask, 'or': some mask), in
\* their original order and with the input's columns.
C8_FilterSemantics ==
    (FilterDone /\ pc = "returned" /\ filters # <<>>) =>
        /\ Len(result.rows) = Cardinality(Surviving)
        /\ \A k \in 1..Len(result.rows) : result.rows[k] = table[Kth(Surviving, k)]

\* the part of C8 the code keeps: the surviving rows are returned in order with the
\* input's columns, and a cell differs from the input cell only by being the
\* Timestamp of the input's date string
C8_RowsUpToDateCoercion ==
    (FilterDone /\ pc = "returned" /\ filters # <<>>) =>
        /\ Len(result.rows) = Cardinality(Surviving)
        /\ \A k \in 1..Len(result.rows) :
            LET out == result.rows[k]
                inp == table[Kth(Surviving, k)]
            IN  /\ DOMAIN out = DOMAIN inp
                /\ \A c \in DOMAIN out :
                    \/ out[c] = inp[c]
                    \/ /\ \E m \in 1..Len(filters) :
                            filters[m].column = c /\ filters[m].data_type = "date"
                       /\ out[c] = to_datetime(inp[c]).v

\* the operator tags the specification recognizes
ClaimedOps ==
    {"eq", "ne", "gt", "lt", "ge", "le", "in", "not_in", "contains", "not_contains"}

BadOpAt(k) == filters[k].operator # Absent /\ filters[k].operator \notin ClaimedOps

HasBadOp == \E k \in 1..Len(filters) : BadOpAt(k)

\* C9 as stated: a condition with an unsupported operator tag, at any position,
\* makes the call fail with the unsupported-operator error and return no rows.
C9_UnsupportedOperator ==
    (FilterDone /\ HasBadOp) =>
        /\ result.kind = "error"
        /\ result.error = "UnsupportedOperator"
        /\ result.rows = <<>>

\* nothing fails before the operator of condition k is looked up: the
\* conditions before it evaluate, and its own date coercion succeeds
ReachesOperator(k) ==
    LET r == EvalFilters(DataFrame(table), SubSeq(filters, 1, k - 1), 1, <<>>)
        f == filters[k]
    IN  /\ r.err = ""
        /\ f.data_type = "date" =>
            /\ f.column \in Columns(r.df)
            /\ \A i \in 1..r.df.n : to_datetime(r.df.col[f.column][i]).ok
            /\ (~f.is_list /\ Dtype(r.df, f.column) # "ts") => to_datetime(f.value).ok

\* C9 amended: the call always fails and returns no rows; the error is the
\* unsupported-operator error when nothing fails before the first such
\* operator is looked up.
C9_UnsupportedOperatorAmended ==
    (FilterDone /\ HasBadOp) =>
        /\ result.kind = "error"
        /\ result.rows = <<>>
        /\ \A k \in 1..Len(filters) :
            (BadOpAt(k) /\ (\A j \in 1..(k - 1) : ~BadOpAt(j)) /\ ReachesOperator(k))
            => result.error = "UnsupportedOperator"

\* the unsupported operator is the second condition, after one that evaluates
C9_Witness ==
    /\ FilterDone
    /\ Len(filters) = 2 /\ ~BadOpAt(1) /\ BadOpAt(2)
    /\ Len(table) > 0
    /\ result.kind = "error" /\ result.error = "UnsupportedOperator"

FrameBefore(k) == EvalFilters(DataFrame(table), SubSeq(filters, 1, k - 1), 1, <<>>)

\* condition k is reached and its operator is applied to its column
OperatorApplied(k) ==
    /\ FrameBefore(k).err = ""
    /\ EvalCondition(FrameBefore(k).df, filters[k]).err
            \notin {"KeyError", "ParserError", "UnsupportedOperator"}

\* the comparison value, or every element of the list, is a date
ValuesAreDates(f) ==
    IF f.is_list THEN \A j \in 1..Len(f.values) : f.values[j].t = "ts"
    ELSE f.value.t = "ts"

\* C11: whenever the operator of a condition with data_type 'date' is applied,
\* the column holds dates and the comparison value, or every element of the
\* list, has been coerced to a date, also when an earlier condition of the call
\* coerced the same column.
C11_DateCoercion ==
    FilterDone =>
        \A k \in 1..Len(filters) :
            (filters[k].data_type = "date" /\ OperatorApplied(k)) =>
                LET d == FrameBefore(k).df
                    f == filters[k]
                IN  /\ Dtype(CoercedFrame(d, f), f.column) = "ts"
                    /\ ValuesAreDates(Operand(d, f))

\* the parts of C11 the code keeps: the column holds dates, and a scalar value
\* is a date when this condition is the one that coerced the column
C11_ColumnAndFirstScalarCoerced ==
    FilterDone =>
        \A k \in 1..Len(filters) :
            (filters[k].data_type = "date" /\ OperatorApplied(k)) =>
                LET d == FrameBefore(k).df
                    f == filters[k]
                IN  /\ Dtype(CoercedFrame(d, f), f.column) = "ts"
                    /\ (~f.is_list /\ Dtype(d, f.column) # "ts")
                        => ValuesAreDates(Operand(d, f))

\* without a data_type the inferred type is the type name of the value (of the
\* first element of a list), which is never 'date': nothing is coerced
C11_InferredTypeNoCoercion ==
    FilterDone =>
        \A k \in 1..Len(filters) :
            (filters[k].data_type = Absent /\ FrameBefore(k).err = "") =>
                LET d == FrameBefore(k).df
                    f == filters[k]
                IN  /\ InferDataType(f) = TypeName(IF f.is_list THEN f.values[1] ELSE f.value)
                    /\ CoercedFrame(d, f) = d
                    /\ Operand(d, f) = f

\* an unparseable date value raises when its condition coerces the column and
\* is compared as text, matching no row, when an earlier condition did
C11_SecondCoercionSkipped ==
    /\ FilterDone /\ pc = "returned"
    /\ Len(filters) = 2
    /\ filters[1].column = filters[2].column
    /\ filters[2].data_type = "date" /\ ~filters[2].is_list
    /\ ~to_datetime(filters[2].value).ok

BadMode == operator_type \notin {"and", "or"}

\* C13: with a combination mode other than 'and' and 'or' the call fails with
\* an error and returns no rows, for every table and every condition list,
\* the empty one included.
C13_BadModeAborts ==
    (FilterDone /\ BadMode) => (result.kind = "error" /\ result.rows = <<>>)

\* the part of C13 the code keeps: with a non-empty condition list the call
\* fails and returns no rows, with the mode error of line 902 when every
\* condition evaluates
C13_BadModeAbortsNonEmpty ==
    (FilterDone /\ BadMode /\ filters # <<>>) =>
        /\ result.kind = "error"
        /\ result.rows = <<>>
        /\ FrameBefore(Len(filters) + 1).err = "" => result.error = "BadOperatorType"

\* a bad mode is reported after two conditions that evaluate
C13_ModeErrorReached ==
    /\ FilterDone /\ BadMode
    /\ Len(filters) = 2 /\ Len(table) > 0
    /\ result.error = "BadOperatorType"

(***************************************************************************)
(* Properties of the merges                                                *)
(***************************************************************************)
Merged(fn) == pc = "returned" /\ entry = fn

SecondaryColumns ==
    IF entry = "get_single_stock_info" THEN {"pe", "roe"}
    ELSE {"pe_percentile", "pb_percentile"}

\* C1: in every row of the merged table, each secondary-sourced value comes
\* from secondary observations dated on or before the row's date.
C1_NoLookAhead ==
    (Merged("get_single_stock_info") \/ Merged("get_stock_indicator")) =>
        \A i \in 1..Len(merged_df) : \A c \in SecondaryColumns :
            IsValid(merged_df[i][c]) =>
                \A s \in merged_df[i][c].src : s <= merged_df[i].date

\* the secondary observations dated on or before d
AsOf(sec, d) == {j \in 1..Len(sec) : sec[j].date <= d}

Latest(sec, d) == CHOOSE j \in AsOf(sec, d) : \A k \in AsOf(sec, d) : sec[k].date <= sec[j].date

\* the attached value is the backward as-of value: missing when no secondary
\* date <= d exists, else the value of the latest observation (compared where
\* that observation holds a number)
AsOfValue(cell, sec, d) ==
    IF AsOf(sec, d) = {} THEN IsNaN(cell)
    ELSE IsNum(sec[Latest(sec, d)].v) => Plain(cell) = sec[Latest(sec, d)].v

\* C2: every primary date of get_single_stock_info's output carries the
\* backward as-of values of both secondary series.
C2_BackwardAsOf ==
    Merged("get_single_stock_info") =>
        /\ Len(merged_df) = Len(price_df)
        /\ \A i \in 1..Len(merged_df) :
            /\ AsOfValue(merged_df[i].pe, sec1, merged_df[i].date)
            /\ AsOfValue(merged_df[i].roe, sec2, merged_df[i].date)

(***************************************************************************)
(* Properties of the retry loop                                            *)
(***************************************************************************)
Failures == {i \in 1..Len(attempts) : attempts[i] = "fail"}

Budget == IF retry < 0 THEN 0 ELSE retry

\* at most n attempts, a fixed delay after each failed one, a success only as
\* the last attempt; the call returns the complete merged table of the attempt
\* that succeeded, or None when all n attempts failed
C14_RetryInvariant ==
    (entry = "get_single_stock_info" /\ pc \in {"loop", "returned"} /\ retry >= 0) =>
        /\ Len(attempts) <= retry
        /\ slept = RetryDelay * Cardinality(Failures)
        /\ \A i \in 1..(Len(attempts) - 1) : attempts[i] = "fail"
        /\ (Len(attempts) > 0 /\ attempts[Len(attempts)] = "ok") => pc = "returned"
        /\ pc = "loop" => result = [kind |-> "none"]
        /\ pc = "returned" =>
            IF Len(attempts) > 0 /\ attempts[Len(attempts)] = "ok"
            THEN /\ result = ReturnedTable(single_stock_merge(price_df, sec1, sec2))
                 /\ Len(result.table) = Len(price_df)
            ELSE /\ result = ReturnedNone
                 /\ Len(attempts) = retry

C14_AllFail ==
    /\ pc = "returned"
    /\ retry = 2
    /\ attempts = <<"fail", "fail">>
    /\ result = ReturnedNone

====
